---------------------------- MODULE Spec2Model ----------------------------
(***************************************************************************)
(* OSCP packet framing: Packet<Raw>::write_raw and Packet<Raw>::read_raw   *)
(* over the CRC-32 digesting wrappers DigesterOutput / DigesterInput       *)
(* (src/lib.rs), and the minimal packet of src/packet.rs.                  *)
(*                                                                         *)
(* A byte is an integer 0..255.  A 32-bit word (the CRC value) is the set  *)
(* of its one-bits, a subset of 0..31, so that it keeps its width exactly. *)
(***************************************************************************)
EXTENDS Integers, Sequences, FiniteSets, TLC

(***************************************************************************)
(* Program constants.                                                      *)
(***************************************************************************)
PACKET_LEN == 32

CONTROLLER == 0

BROADCAST == 255

(***************************************************************************)
(* Bounds of the model.                                                    *)
(***************************************************************************)
\* peripheral addresses 1..MaxPeripheral are used as targets
MaxPeripheral == 1

\* payload contents are drawn from the patterns 0..MaxSeed
MaxSeed == 0

\* under SpecCorrupt payloads have length PACKET_LEN or 0..MaxShortLen
MaxShortLen == 0

\* under SpecMinimal the minimal packet's destinations are 0..MaxDest
MaxDest == 3

Byte == 0 .. 255

Pow2(n) == 2 ^ n

(***************************************************************************)
(* 32-bit words as bit sets, and the CRC-32 (IEEE) digest.                 *)
(***************************************************************************)
XorBits(A, B) == (A \ B) \cup (B \ A)

NotBits(A) == (0 .. 31) \ A

ByteBits(b) == {i \in 0 .. 7 : (b \div Pow2(i)) % 2 = 1}

FlipBit(b, i) == IF i \in ByteBits(b) THEN b - Pow2(i) ELSE b + Pow2(i)

ShiftRight1(A) == {i - 1 : i \in A \ {0}}

\* crc32::IEEE = 0xEDB88320, the reflected polynomial
IEEE == {31, 30, 29, 27, 26, 24, 23, 21, 20, 19, 15, 9, 8, 5}

CrcRound(A) ==
    IF 0 \in A THEN XorBits(ShiftRight1(A), IEEE) ELSE ShiftRight1(A)

\* crc32::make_table(IEEE, true): entry n is n after eight rounds
CrcTable ==
    [n \in Byte |->
        CrcRound(CrcRound(CrcRound(CrcRound(
        CrcRound(CrcRound(CrcRound(CrcRound(ByteBits(n)))))))))]

BitAt(A, i) == IF i \in A THEN Pow2(i % 8) ELSE 0

\* byte k (0 = least significant) of the word A
ByteAt(A, k) ==
    BitAt(A, 8 * k) + BitAt(A, 8 * k + 1) + BitAt(A, 8 * k + 2)
    + BitAt(A, 8 * k + 3) + BitAt(A, 8 * k + 4) + BitAt(A, 8 * k + 5)
    + BitAt(A, 8 * k + 6) + BitAt(A, 8 * k + 7)

ShiftRight8(A) == {i - 8 : i \in A \ (0 .. 7)}

\* crc32::Digest::new(crc32::IEEE): the running value starts at 0
digest_new == {}

\* a faulty variant of digest_write_u8 that folds nothing in
digest_write_u8_Skip(value, d) == value

\* crc32::Digest::write_u8 (crc32::update, reflected): with v = !value,
\* v = table[(v ^ d) & 0xFF] ^ (v >> 8), and the new value is !v
digest_write_u8(value, d) ==
    LET v == NotBits(value)
        n == ByteAt(XorBits(v, ByteBits(d)), 0)
    IN  NotBits(XorBits(CrcTable[n], ShiftRight8(v)))

\* crc32::Digest::finish() as u32
digest_finish(value) == value

\* a faulty variant of to_le_bytes that emits the most significant byte first
to_be_bytes(A) == [k \in 1 .. 4 |-> ByteAt(A, 4 - k)]

\* u32::to_le_bytes
to_le_bytes(A) == [k \in 1 .. 4 |-> ByteAt(A, k - 1)]

\* u32::from_le_bytes
from_le_bytes(buf) ==
    UNION {{8 * (k - 1) + i : i \in ByteBits(buf[k])} : k \in 1 .. 4}

RECURSIVE DigestUpTo(_, _)
\* the digest of the first k bytes of s, folded in from digest_new in order
\* (the test on the earlier digest has it evaluated before it is used)
DigestUpTo(s, k) ==
    IF k = 0 THEN digest_new
    ELSE LET prev == DigestUpTo(s, k - 1)
         IN  IF prev \subseteq 0 .. 31 THEN digest_write_u8(prev, s[k])
             ELSE {}

\* the CRC-32 of the byte sequence s
Crc32(s) == digest_finish(DigestUpTo(s, Len(s)))

(***************************************************************************)
(* Wire codes (src/lib.rs PacketType and Flags, src/packet.rs Type).       *)
(***************************************************************************)
PacketTypes == {"Command", "MidiEvent", "Raw"}

\* `self.typ as u8`
PacketType_as_u8(t) ==
    CASE t = "Command" -> 1
      [] t = "MidiEvent" -> 2
      [] t = "Raw" -> 255

\* a faulty variant of PacketType_try_from that defaults an unknown code to Raw
PacketType_try_from_Default(value) ==
    CASE value = 1 -> [ok |-> TRUE, val |-> "Command"]
      [] value = 2 -> [ok |-> TRUE, val |-> "MidiEvent"]
      [] OTHER -> [ok |-> TRUE, val |-> "Raw"]

\* impl TryFrom<u8> for PacketType
PacketType_try_from(value) ==
    CASE value = 1 -> [ok |-> TRUE, val |-> "Command"]
      [] value = 2 -> [ok |-> TRUE, val |-> "MidiEvent"]
      [] value = 255 -> [ok |-> TRUE, val |-> "Raw"]
      [] OTHER -> [ok |-> FALSE, val |-> "ParseError"]

\* bitflags! struct Flags: u8 { const IGNORE = 0b00000001; }
FlagBit(f) == CASE f = "IGNORE" -> 0

FlagNames == {"IGNORE"}

\* Flags::bits
Flags_bits(fs) == ByteAt({FlagBit(f) : f \in fs}, 0)

\* Flags::from_bits: None when a bit outside the declared flags is set
Flags_from_bits(b) ==
    IF ByteBits(b) \subseteq {FlagBit(f) : f \in FlagNames}
    THEN [ok |-> TRUE, val |-> {f \in FlagNames : FlagBit(f) \in ByteBits(b)}]
    ELSE [ok |-> FALSE, val |-> {}]

Types == {"MidiEvent", "Command"}

\* impl Into<u8> for Type (src/packet.rs)
Type_into(t) ==
    CASE t = "MidiEvent" -> 1
      [] t = "Command" -> 16

\* a faulty variant of Type_try_from that reads lib.rs's code table (Command = 0x01)
Type_try_from_LibTable(value) ==
    CASE value = 1 -> [ok |-> TRUE, val |-> "Command"]
      [] value = 2 -> [ok |-> TRUE, val |-> "MidiEvent"]
      [] OTHER -> [ok |-> FALSE, val |-> "ParseError"]

\* impl TryFrom<u8> for Type (src/packet.rs)
Type_try_from(value) ==
    CASE value = 1 -> [ok |-> TRUE, val |-> "MidiEvent"]
      [] value = 16 -> [ok |-> TRUE, val |-> "Command"]
      [] OTHER -> [ok |-> FALSE, val |-> "ParseError"]

\* fn to_io_error: every nb::Error, WouldBlock included, becomes IoError
to_io_error(err) == "IoError"

(***************************************************************************)
(* The packets the model sends.                                            *)
(***************************************************************************)
Targets == {CONTROLLER, BROADCAST} \cup (1 .. MaxPeripheral)

PayloadByte(seed, i) == (165 + 89 * seed + 7 * i) % 256

\* type Raw = h::Vec<u8, PACKET_LEN>: at most PACKET_LEN bytes
Raw(len, seed) == [i \in 1 .. len |-> PayloadByte(seed, i)]

Packets(lens) ==
    {[typ |-> t, flags |-> f, target |-> a, data |-> Raw(n, s)] :
        t \in PacketTypes, f \in SUBSET FlagNames, a \in Targets,
        n \in lens, s \in 0 .. MaxSeed}

NoPacket == [typ |-> "none", flags |-> {}, target |-> 0, data |-> <<>>]

(***************************************************************************)
(* State.                                                                  *)
(*   faulty   whether the serial device may refuse a byte that it could    *)
(*            move (a reliable device still reports WouldBlock when the    *)
(*            stream has run dry)                                          *)
(* write_raw: pkt (self), wpc (position), widx (loop index of write_data   *)
(*   and write_checksum), output (bytes the sink accepted), wcalls (sink   *)
(*   writes performed), wdigest (DigesterOutput.digest), wres (result).    *)
(* The link: link (what happened to the frame), input (the byte stream     *)
(*   the source holds).                                                    *)
(* read_raw: rpc, ridx, rpos (bytes consumed), rcalls (source reads        *)
(*   performed), rsrc (the source's last answer), rdigest, rtyp, rflags,   *)
(*   rtarget, data, cbuf (read_checksum's buf), rres, rpkt (result).       *)
(* src/packet.rs: mpkt, mpc, mout, mcalls, mres (Packet::write), cin,      *)
(*   cout (a byte and what a try_from made of it).                         *)
(***************************************************************************)
VARIABLES faulty,
          pkt, wpc, widx, output, wcalls, wdigest, wres,
          link, input,
          rpc, ridx, rpos, rcalls, rsrc, rdigest, rtyp, rflags, rtarget,
          data, cbuf, rres, rpkt,
          mpkt, mpc, mout, mcalls, mres, cin, cout

envVars == <<faulty>>

wVars == <<pkt, wpc, widx, output, wcalls, wdigest, wres>>

linkVars == <<link, input>>

rVars == <<rpc, ridx, rpos, rcalls, rsrc, rdigest, rtyp, rflags, rtarget,
           data, cbuf, rres, rpkt>>

mVars == <<mpkt, mpc, mout, mcalls, mres, cin, cout>>

vars == <<faulty, pkt, wpc, widx, output, wcalls, wdigest, wres, link, input,
          rpc, ridx, rpos, rcalls, rsrc, rdigest, rtyp, rflags, rtarget,
          data, cbuf, rres, rpkt, mpkt, mpc, mout, mcalls, mres, cin, cout>>

(***************************************************************************)
(* embedded_hal::serial::Write::write answers Ok, Err(WouldBlock) or       *)
(* Err(Other); Read::read answers a byte, Err(WouldBlock) or Err(Other).   *)
(***************************************************************************)
SinkOutcomes == IF faulty THEN {"Ok", "WouldBlock", "Other"} ELSE {"Ok"}

SourceOutcomes ==
    (IF rpos < Len(input) THEN {"Byte"} ELSE {"WouldBlock"})
        \cup (IF faulty THEN {"WouldBlock", "Other"} ELSE {})

(***************************************************************************)
(* Initial states: the packet is built, DigesterOutput::new and            *)
(* DigesterInput::new have run, nothing has been written or read.          *)
(***************************************************************************)
WriterInit(lens) ==
    /\ pkt \in Packets(lens)
    /\ wpc = "typ"
    /\ widx = 0
    /\ output = <<>>
    /\ wcalls = 0
    /\ wdigest = digest_new
    /\ wres = "pending"

WriterIdle ==
    /\ pkt = NoPacket
    /\ wpc = "done"
    /\ widx = 0
    /\ output = <<>>
    /\ wcalls = 0
    /\ wdigest = digest_new
    /\ wres = "pending"

ReaderInit ==
    /\ link = "idle"
    /\ input = <<>>
    /\ rpc = "idle"
    /\ ridx = 0
    /\ rpos = 0
    /\ rcalls = 0
    /\ rsrc = "none"
    /\ rdigest = digest_new
    /\ rtyp = "none"
    /\ rflags = {}
    /\ rtarget = 0
    /\ data = [i \in 1 .. PACKET_LEN |-> 0]
    /\ cbuf = [i \in 1 .. 4 |-> 0]
    /\ rres = "pending"
    /\ rpkt = NoPacket

NoMinimalPacket == [dest |-> 0, packet_type |-> "none"]

MinimalIdle ==
    /\ mpkt = NoMinimalPacket
    /\ mpc = "done"
    /\ mout = <<>>
    /\ mcalls = 0
    /\ mres = "pending"
    /\ cin = 0
    /\ cout = [fn |-> "none", ok |-> FALSE, val |-> "none"]

MinimalInit ==
    /\ mpkt \in [dest : 0 .. MaxDest, packet_type : Types]
    /\ mpc = "addr"
    /\ mout = <<>>
    /\ mcalls = 0
    /\ mres = "pending"
    /\ cin \in Byte
    /\ cout = [fn |-> "none", ok |-> FALSE, val |-> "none"]

Init ==
    /\ faulty = TRUE
    /\ WriterInit(0 .. PACKET_LEN)
    /\ ReaderInit
    /\ MinimalIdle

InitCorrupt ==
    /\ faulty = FALSE
    /\ WriterInit((0 .. MaxShortLen) \cup {PACKET_LEN})
    /\ ReaderInit
    /\ MinimalIdle

InitMinimal ==
    /\ faulty = TRUE
    /\ WriterIdle
    /\ ReaderInit
    /\ MinimalInit

(***************************************************************************)
(* Packet<Raw>::write_raw through DigesterOutput.                          *)
(***************************************************************************)
\* a faulty variant of DigesterOutput_write that drops the sink's error and goes on
DigesterOutput_write_Swallow(d, okpc, okidx) ==
    \E r \in SinkOutcomes :
        /\ wcalls' = wcalls + 1
        /\ output' = IF r = "Ok" THEN Append(output, d) ELSE output
        /\ wdigest' = digest_write_u8(wdigest, d)
        /\ wpc' = okpc
        /\ widx' = okidx
        /\ wres' = wres

\* DigesterOutput::write: one sink write; on Ok the byte is folded into the
\* digest and write_raw goes on at okpc, on an error `?` returns IoError
DigesterOutput_write(d, okpc, okidx) ==
    \E r \in SinkOutcomes :
        /\ wcalls' = wcalls + 1
        /\ IF r = "Ok"
           THEN /\ output' = Append(output, d)
                /\ wdigest' = digest_write_u8(wdigest, d)
                /\ wpc' = okpc
                /\ widx' = okidx
                /\ wres' = wres
           ELSE /\ wres' = to_io_error(r)
                /\ wpc' = "done"
                /\ UNCHANGED <<output, wdigest, widx>>

\* where write_raw goes once i payload bytes are written (`for b in d`)
DataPc(i) == IF i < Len(pkt.data) THEN "data" ELSE "checksum"

\* out.write(self.typ as u8)?
WriteType ==
    /\ wpc = "typ"
    /\ DigesterOutput_write(PacketType_as_u8(pkt.typ), "flags", 0)
    /\ UNCHANGED <<pkt, envVars, linkVars, rVars, mVars>>

\* out.write(self.flags.bits())?
WriteFlags ==
    /\ wpc = "flags"
    /\ DigesterOutput_write(Flags_bits(pkt.flags), "target", 0)
    /\ UNCHANGED <<pkt, envVars, linkVars, rVars, mVars>>

\* out.write(self.target.0)?
WriteTarget ==
    /\ wpc = "target"
    /\ DigesterOutput_write(pkt.target, DataPc(0), 0)
    /\ UNCHANGED <<pkt, envVars, linkVars, rVars, mVars>>

\* one round of DigesterOutput::write_data's loop
write_data ==
    DigesterOutput_write(pkt.data[widx + 1], DataPc(widx + 1),
                         IF widx + 1 < Len(pkt.data) THEN widx + 1 ELSE 0)

WriteData ==
    /\ wpc = "data"
    /\ write_data
    /\ UNCHANGED <<pkt, envVars, linkVars, rVars, mVars>>

\* a faulty variant of write_checksum that emits finish() as the u64 it is: 8 bytes
write_checksum_u64 ==
    LET digest == digest_finish(wdigest)
        b == IF widx < 4 THEN to_le_bytes(digest)[widx + 1] ELSE 0
    IN  \E r \in SinkOutcomes :
            /\ wcalls' = wcalls + 1
            /\ IF r = "Ok"
               THEN /\ output' = Append(output, b)
                    /\ IF widx + 1 < 8
                       THEN /\ widx' = widx + 1
                            /\ UNCHANGED <<wpc, wres>>
                       ELSE /\ widx' = 0
                            /\ wpc' = "done"
                            /\ wres' = "Ok"
               ELSE /\ wres' = to_io_error(r)
                    /\ wpc' = "done"
                    /\ UNCHANGED <<output, widx>>
            /\ UNCHANGED wdigest

\* one round of DigesterOutput::write_checksum's loop: the trailer goes to the
\* sink directly, not through DigesterOutput::write; after the fourth byte
\* write_raw returns Ok(())
write_checksum ==
    LET digest == digest_finish(wdigest)
        b == to_le_bytes(digest)[widx + 1]
    IN  \E r \in SinkOutcomes :
            /\ wcalls' = wcalls + 1
            /\ IF r = "Ok"
               THEN /\ output' = Append(output, b)
                    /\ IF widx + 1 < 4
                       THEN /\ widx' = widx + 1
                            /\ UNCHANGED <<wpc, wres>>
                       ELSE /\ widx' = 0
                            /\ wpc' = "done"
                            /\ wres' = "Ok"
               ELSE /\ wres' = to_io_error(r)
                    /\ wpc' = "done"
                    /\ UNCHANGED <<output, widx>>
            /\ UNCHANGED wdigest

WriteChecksum ==
    /\ wpc = "checksum"
    /\ write_checksum
    /\ UNCHANGED <<pkt, envVars, linkVars, rVars, mVars>>

(***************************************************************************)
(* The serial link: the frame a successful write_raw produced becomes the  *)
(* byte stream of the reader's source, as written, with one bit flipped,   *)
(* or with one of its first two bytes replaced.                            *)
(***************************************************************************)
StartRead(kind, stream) ==
    /\ wpc = "done"
    /\ wres = "Ok"
    /\ link = "idle"
    /\ link' = kind
    /\ input' = stream
    /\ rpc' = "typ"
    /\ UNCHANGED <<ridx, rpos, rcalls, rsrc, rdigest, rtyp, rflags, rtarget,
                   data, cbuf, rres, rpkt>>
    /\ UNCHANGED <<envVars, wVars, mVars>>

Deliver == StartRead("clean", output)

DeliverFlipped ==
    /\ wres = "Ok"
    /\ link = "idle"
    /\ \E p \in 1 .. Len(output), i \in 0 .. 7 :
        StartRead("flipped", [output EXCEPT ![p] = FlipBit(@, i)])

DeliverReplaced ==
    /\ wres = "Ok"
    /\ link = "idle"
    /\ \E p \in 1 .. 2 :
          \E v \in Byte \ {output[p]} :
              StartRead("replaced", [output EXCEPT ![p] = v])

(***************************************************************************)
(* Packet<Raw>::read_raw through DigesterInput.                            *)
(***************************************************************************)
\* `return Err(e)` / `?`: read_raw ends with the error e
Return(e) ==
    /\ rres' = e
    /\ rpc' = "done"

\* DigesterInput::read: one source read; a byte is folded into the digest
DigesterInput_read(r) ==
    /\ rcalls' = rcalls + 1
    /\ rsrc' = r
    /\ IF r = "Byte"
       THEN /\ rpos' = rpos + 1
            /\ rdigest' = digest_write_u8(rdigest, input[rpos + 1])
       ELSE UNCHANGED <<rpos, rdigest>>

\* let packet_type = PacketType::try_from(input.read()?)?
ReadType ==
    /\ rpc = "typ"
    /\ \E r \in SourceOutcomes :
          /\ DigesterInput_read(r)
          /\ IF r = "Byte"
             THEN LET t == PacketType_try_from(input[rpos + 1])
                  IN  IF t.ok
                      THEN /\ rtyp' = t.val
                           /\ rpc' = "flags"
                           /\ rres' = rres
                      ELSE /\ Return(t.val)
                           /\ rtyp' = rtyp
             ELSE /\ Return(to_io_error(r))
                  /\ rtyp' = rtyp
    /\ UNCHANGED <<ridx, rflags, rtarget, data, cbuf, rpkt>>
    /\ UNCHANGED <<envVars, wVars, linkVars, mVars>>

\* let flags = Flags::from_bits(input.read()?).ok_or(Error::ParseError)?
ReadFlags ==
    /\ rpc = "flags"
    /\ \E r \in SourceOutcomes :
          /\ DigesterInput_read(r)
          /\ IF r = "Byte"
             THEN LET f == Flags_from_bits(input[rpos + 1])
                  IN  IF f.ok
                      THEN /\ rflags' = f.val
                           /\ rpc' = "target"
                           /\ rres' = rres
                      ELSE /\ Return("ParseError")
                           /\ rflags' = rflags
             ELSE /\ Return(to_io_error(r))
                  /\ rflags' = rflags
    /\ UNCHANGED <<ridx, rtyp, rtarget, data, cbuf, rpkt>>
    /\ UNCHANGED <<envVars, wVars, linkVars, mVars>>

\* let target = Addr(input.read()?)
ReadTarget ==
    /\ rpc = "target"
    /\ \E r \in SourceOutcomes :
          /\ DigesterInput_read(r)
          /\ IF r = "Byte"
             THEN /\ rtarget' = input[rpos + 1]
                  /\ rpc' = "data"
                  /\ rres' = rres
             ELSE /\ Return(to_io_error(r))
                  /\ rtarget' = rtarget
    /\ UNCHANGED <<ridx, rtyp, rflags, data, cbuf, rpkt>>
    /\ UNCHANGED <<envVars, wVars, linkVars, mVars>>

\* one round of DigesterInput::read_data::<PACKET_LEN>: buf[i] = self.read()?
read_data ==
    \E r \in SourceOutcomes :
        /\ DigesterInput_read(r)
        /\ IF r = "Byte"
           THEN /\ data' = [data EXCEPT ![ridx + 1] = input[rpos + 1]]
                /\ IF ridx + 1 < PACKET_LEN
                   THEN /\ ridx' = ridx + 1
                        /\ rpc' = rpc
                   ELSE /\ ridx' = 0
                        /\ rpc' = "checksum"
                /\ rres' = rres
           ELSE /\ Return(to_io_error(r))
                /\ UNCHANGED <<data, ridx>>

ReadData ==
    /\ rpc = "data"
    /\ read_data
    /\ UNCHANGED <<rtyp, rflags, rtarget, cbuf, rpkt>>
    /\ UNCHANGED <<envVars, wVars, linkVars, mVars>>

\* h::Vec::from_slice(&data): an error when the slice exceeds the capacity
Vec_from_slice(s) ==
    IF Len(s) <= PACKET_LEN THEN [ok |-> TRUE, val |-> s]
    ELSE [ok |-> FALSE, val |-> <<>>]

\* the tail of read_raw after read_checksum returned Ok(())
ReadOk ==
    LET v == Vec_from_slice(data)
    IN  IF v.ok
        THEN /\ Return("Ok")
             /\ rpkt' = [typ |-> rtyp, flags |-> rflags, target |-> rtarget,
                         data |-> v.val]
        ELSE /\ Return("ParseError")
             /\ rpkt' = rpkt

\* a faulty variant of read_checksum that never compares the trailer
read_checksum_Unchecked ==
    \E r \in SourceOutcomes :
        /\ rcalls' = rcalls + 1
        /\ rsrc' = r
        /\ UNCHANGED rdigest
        /\ IF r = "Byte"
           THEN /\ rpos' = rpos + 1
                /\ cbuf' = [cbuf EXCEPT ![ridx + 1] = input[rpos + 1]]
                /\ IF ridx + 1 < 4
                   THEN /\ ridx' = ridx + 1
                        /\ UNCHANGED <<rpc, rres, rpkt>>
                   ELSE /\ ridx' = 0
                        /\ ReadOk
           ELSE /\ rpos' = rpos
                /\ Return(to_io_error(r))
                /\ UNCHANGED <<cbuf, ridx, rpkt>>

\* one round of DigesterInput::read_checksum's loop: the trailer is read from
\* the source directly, not through DigesterInput::read; after the fourth
\* byte the trailer is compared with the digest, and a mismatch is
\* Err(Error::IoError)
read_checksum ==
    \E r \in SourceOutcomes :
        /\ rcalls' = rcalls + 1
        /\ rsrc' = r
        /\ UNCHANGED rdigest
        /\ IF r = "Byte"
           THEN /\ rpos' = rpos + 1
                /\ cbuf' = [cbuf EXCEPT ![ridx + 1] = input[rpos + 1]]
                /\ IF ridx + 1 < 4
                   THEN /\ ridx' = ridx + 1
                        /\ UNCHANGED <<rpc, rres, rpkt>>
                   ELSE /\ ridx' = 0
                        /\ LET packet_checksum == from_le_bytes(cbuf')
                               calc_checksum == digest_finish(rdigest)
                           IN  IF packet_checksum = calc_checksum
                               THEN ReadOk
                               ELSE /\ Return("IoError")
                                    /\ rpkt' = rpkt
           ELSE /\ rpos' = rpos
                /\ Return(to_io_error(r))
                /\ UNCHANGED <<cbuf, ridx, rpkt>>

ReadChecksum ==
    /\ rpc = "checksum"
    /\ read_checksum
    /\ UNCHANGED <<rtyp, rflags, rtarget, data>>
    /\ UNCHANGED <<envVars, wVars, linkVars, mVars>>

(***************************************************************************)
(* src/packet.rs: the minimal Packet::write, and the code conversions      *)
(* applied to a byte.                                                      *)
(***************************************************************************)
\* out.write(b)?: From<nb::Error<X>> for Error makes every error IoError
Serial_write(b, okpc, okres) ==
    \E r \in SinkOutcomes :
        /\ mcalls' = mcalls + 1
        /\ IF r = "Ok"
           THEN /\ mout' = Append(mout, b)
                /\ mpc' = okpc
                /\ mres' = okres
           ELSE /\ mout' = mout
                /\ mpc' = "done"
                /\ mres' = "IoError"

\* Packet::write_addr
write_addr ==
    /\ mpc = "addr"
    /\ Serial_write(mpkt.dest, "type", mres)
    /\ UNCHANGED <<mpkt, cin, cout>>
    /\ UNCHANGED <<envVars, wVars, linkVars, rVars>>

\* Packet::write_packet_type, then Packet::write returns Ok(())
write_packet_type ==
    /\ mpc = "type"
    /\ Serial_write(Type_into(mpkt.packet_type), "done", "Ok")
    /\ UNCHANGED <<mpkt, cin, cout>>
    /\ UNCHANGED <<envVars, wVars, linkVars, rVars>>

\* PacketType::try_from(cin)
TryFromPacketType ==
    /\ cout.fn = "none"
    /\ cout' = [fn |-> "PacketType"] @@ PacketType_try_from(cin)
    /\ UNCHANGED <<mpkt, mpc, mout, mcalls, mres, cin>>
    /\ UNCHANGED <<envVars, wVars, linkVars, rVars>>

\* Type::try_from(cin)
TryFromType ==
    /\ cout.fn = "none"
    /\ cout' = [fn |-> "Type"] @@ Type_try_from(cin)
    /\ UNCHANGED <<mpkt, mpc, mout, mcalls, mres, cin>>
    /\ UNCHANGED <<envVars, wVars, linkVars, rVars>>

(***************************************************************************)
(* Specifications.                                                         *)
(*   Spec         write_raw on a device that may fail, the frame handed    *)
(*                to read_raw unchanged                                    *)
(*   SpecWrite    write_raw alone on a device that may fail                *)
(*   SpecCorrupt  a reliable device, the frame handed over unchanged,      *)
(*                with one bit flipped, or with a header byte replaced     *)
(*   SpecMinimal  src/packet.rs and the code conversions                   *)
(***************************************************************************)
Writer == WriteType \/ WriteFlags \/ WriteTarget \/ WriteData \/ WriteChecksum

Reader == ReadType \/ ReadFlags \/ ReadTarget \/ ReadData \/ ReadChecksum

Next == Writer \/ Deliver \/ Reader

NextCorrupt == Writer \/ Deliver \/ DeliverFlipped \/ DeliverReplaced \/ Reader

NextMinimal ==
    write_addr \/ write_packet_type \/ TryFromPacketType \/ TryFromType

Spec == Init /\ [][Next]_vars

SpecWrite == Init /\ [][Writer]_vars

SpecCorrupt == InitCorrupt /\ [][NextCorrupt]_vars

SpecMinimal == InitMinimal /\ [][NextMinimal]_vars

(***************************************************************************)
(* Properties.                                                             *)
(***************************************************************************)
FRAME_LEN == PACKET_LEN + 7

\* the source refused a read although bytes of the stream were left
PrematureFailure == rsrc \in {"WouldBlock", "Other"} /\ rpos < Len(input)

\* C1: the bytes a successful write_raw produced, fed unchanged to read_raw by
\* a source that delivers all of them, decode to Ok with the packet written,
\* for every payload length 0..PACKET_LEN.
C1_RoundTrip ==
    (link = "clean" /\ rpc = "done" /\ ~PrematureFailure)
        => (rres = "Ok" /\ rpkt = pkt)

\* The round trip of a packet whose payload fills the buffer (PACKET_LEN bytes).
RoundTripFullPayload ==
    (link = "clean" /\ rpc = "done" /\ ~PrematureFailure
        /\ Len(pkt.data) = PACKET_LEN)
        => (rres = "Ok" /\ rpkt = pkt)

\* C2: when header, payload and trailer were all read without a source
\* failure and the trailer differs from the accumulated checksum, read_raw
\* returns ParseError; IoError is returned only when the source failed.
C2_MismatchIsParseError ==
    /\ (rpc = "done" /\ rpos = FRAME_LEN /\ rsrc = "Byte"
            /\ from_le_bytes(cbuf) # digest_finish(rdigest))
        => rres = "ParseError"
    /\ rres = "IoError" => rsrc \in {"WouldBlock", "Other"}

\* C3: when the source has delivered a strict prefix of a valid frame and
\* then reports WouldBlock, read_raw yields neither IoError nor ParseError
\* nor a packet.
C3_WouldBlockIsNoFrameYet ==
    (link = "clean" /\ rsrc = "WouldBlock" /\ rpos < Len(input))
        => (rres \notin {"IoError", "ParseError"} /\ rpkt = NoPacket)

\* C4: a stream whose first byte is none of 0x01, 0x02, 0xFF, and a stream
\* with a valid first byte whose flags byte sets a bit other than bit 0, is
\* rejected with ParseError as soon as that byte is read, and yields no packet.
C4_UnknownCodesRejected ==
    /\ (rpos >= 1 /\ input[1] \notin {1, 2, 255})
        => (rres = "ParseError" /\ rpc = "done" /\ rpos = 1 /\ rpkt = NoPacket)
    /\ (rpos >= 2 /\ input[1] \in {1, 2, 255} /\ input[2] \notin {0, 1})
        => (rres = "ParseError" /\ rpc = "done" /\ rpos = 2 /\ rpkt = NoPacket)

C4_Witness ==
    /\ link = "replaced"
    /\ rpos = 2
    /\ input[1] = 1
    /\ input[2] = 128
    /\ rres = "ParseError"

\* C5: the sink always holds a prefix of type code, flags bits, target,
\* payload in index order, then the four bytes of the CRC-32 of exactly
\* those bytes, least significant first; a successful write_raw has written
\* all of it and nothing more.
C5_WireLayout ==
    LET n == 3 + Len(pkt.data)
        m == Len(output)
    IN  /\ m <= n + 4
        /\ m >= 1 => output[1] = PacketType_as_u8(pkt.typ)
        /\ m >= 2 => output[2] = Flags_bits(pkt.flags)
        /\ m >= 3 => output[3] = pkt.target
        /\ \A k \in 4 .. m : k <= n => output[k] = pkt.data[k - 3]
        /\ m > n => \A crc \in {Crc32(SubSeq(output, 1, n))} :
                        \A k \in n + 1 .. m : output[k] = ByteAt(crc, k - n - 1)
        /\ wres = "Ok" => m = n + 4

C5_Witness ==
    /\ wres = "Ok"
    /\ Len(pkt.data) = PACKET_LEN
    /\ pkt.typ = "Raw"
    /\ pkt.flags = {"IGNORE"}
    /\ Len(output) = FRAME_LEN

\* C6: read_raw applied to a frame with any one bit flipped never returns a
\* packet, and when it returns it returns an error.
C6_BitFlipRejected ==
    link = "flipped"
        => /\ rres # "Ok"
           /\ rpkt = NoPacket
           /\ rpc = "done" => rres \in {"IoError", "ParseError"}

C6_Witness ==
    /\ link = "flipped"
    /\ rpc = "done"
    /\ rpos = FRAME_LEN
    /\ rsrc = "Byte"
    /\ \E k \in 4 .. PACKET_LEN + 3 : input[k] # output[k]
    /\ rres = "IoError"

\* C7: a failed sink write makes write_raw return IoError at once, and no
\* sink write follows it; a source read that fails with a terminal error
\* makes read_raw return IoError and no packet, and no source read follows.
C7_IoFailureAborts ==
    /\ [](wcalls > Len(output)
            => (wres = "IoError" /\ wpc = "done" /\ wcalls = Len(output) + 1))
    /\ [][wres = "IoError" => (wcalls' = wcalls /\ output' = output)]_vars
    /\ [](rsrc = "Other"
            => (rres = "IoError" /\ rpc = "done" /\ rpkt = NoPacket))
    /\ [][rsrc = "Other" => (rcalls' = rcalls /\ rpos' = rpos)]_vars

C7_Witness ==
    /\ wres = "IoError"
    /\ Len(pkt.data) = PACKET_LEN
    /\ wcalls = PACKET_LEN + 5
    /\ Len(output) = PACKET_LEN + 4

\* C8: PacketType::try_from maps 0x01, 0x02, 0xFF to Command, MidiEvent, Raw
\* (the inverse of `as u8`) and every other byte to ParseError; Type::try_from
\* maps 0x01, 0x10 to MidiEvent, Command (the inverse of into) and every
\* other byte to ParseError.
C8_CodeBijection ==
    /\ cout.fn = "PacketType" =>
          /\ cin = 1 => (cout.ok /\ cout.val = "Command")
          /\ cin = 2 => (cout.ok /\ cout.val = "MidiEvent")
          /\ cin = 255 => (cout.ok /\ cout.val = "Raw")
          /\ cin \notin {1, 2, 255} => (~cout.ok /\ cout.val = "ParseError")
          /\ \A v \in PacketTypes :
                cin = PacketType_as_u8(v) => (cout.ok /\ cout.val = v)
    /\ cout.fn = "Type" =>
          /\ cin = 1 => (cout.ok /\ cout.val = "MidiEvent")
          /\ cin = 16 => (cout.ok /\ cout.val = "Command")
          /\ cin \notin {1, 16} => (~cout.ok /\ cout.val = "ParseError")
          /\ \A t \in Types :
                cin = Type_into(t) => (cout.ok /\ cout.val = t)

C8_Witness ==
    /\ cout.fn = "Type"
    /\ cin = Type_into("Command")
    /\ cout.ok
    /\ cout.val = "Command"

\* C9: read_raw reads type, flags, target, PACKET_LEN payload bytes and four
\* trailer bytes in this order; a packet is returned only with Ok, and Ok
\* only after exactly FRAME_LEN bytes were consumed and the trailer, least
\* significant byte first, equals the CRC-32 of the 35 bytes before it.
C9_VerifiedDecode ==
    /\ rpc = "typ" => rpos = 0
    /\ rpc = "flags" => rpos = 1
    /\ rpc = "target" => rpos = 2
    /\ rpc = "data" => (rpos = 3 + ridx /\ ridx < PACKET_LEN)
    /\ rpc = "checksum" => (rpos = 3 + PACKET_LEN + ridx /\ ridx < 4)
    /\ rpc # "done" => rres = "pending"
    /\ rpkt # NoPacket => rres = "Ok"
    /\ rres = "Ok" =>
          /\ rpc = "done"
          /\ rpos = FRAME_LEN
          /\ rcalls = FRAME_LEN
          /\ \A crc \in {Crc32(SubSeq(input, 1, PACKET_LEN + 3))} :
                \A k \in 0 .. 3 : input[PACKET_LEN + 4 + k] = ByteAt(crc, k)
          /\ rpkt.data = SubSeq(input, 4, PACKET_LEN + 3)
          /\ rpkt.target = input[3]

C9_Witness ==
    /\ rres = "Ok"
    /\ link = "clean"
    /\ rpos = FRAME_LEN
    /\ rpkt = pkt

\* C10: a successful write_raw has performed exactly 3 + L + 4 sink writes,
\* L the payload length, and no frame ever takes more than 39 writes or bytes.
C10_BoundedFrame ==
    /\ Len(pkt.data) <= PACKET_LEN
    /\ wcalls <= 39
    /\ Len(output) <= 39
    /\ wres = "Ok" =>
          (wcalls = 3 + Len(pkt.data) + 4 /\ Len(output) = wcalls)

C10_Witness ==
    /\ wres = "Ok"
    /\ wcalls = 39
    /\ Len(output) = 39

=============================================================================
